---- MODULE Spec2Model ----
(***************************************************************************)
(* ScenarioDrivenModel (src/scenarios/scenariodriven.py): the day-stepping *)
(* driver of the epidemic simulation, with the ProbState compartments and  *)
(* the AgeGroup clinical cascades it drives.                               *)
(*                                                                         *)
(* Python floats are modelled by the real numbers they approximate: every  *)
(* count is an exact rational [n |-> numerator, d |-> denominator > 0] in  *)
(* lowest terms, so that "equal" means equal and not "within tolerance".   *)
(***************************************************************************)
EXTENDS Integers, Sequences, FiniteSets, TLC

(* ---------------------------------------------------------------------- *)
(* Bounds of the model                                                     *)
(* ---------------------------------------------------------------------- *)

\* days one model object is stepped over its whole life
MaxDays == 4
\* largest day offset of a schedule handed to run_r0_set
MaxOffset == 2
\* longest schedule (number of offsets, number of values) handed to run_r0_set
MaxSeg == 2

(* ---------------------------------------------------------------------- *)
(* Real arithmetic of the Python expressions                               *)
(* ---------------------------------------------------------------------- *)

Abs(x) == IF x < 0 THEN -x ELSE x

RECURSIVE Gcd(_, _)
Gcd(a, b) == IF b = 0 THEN a ELSE Gcd(b, a % b)

\* the rational n/d in lowest terms, d # 0
Rat(n, d) ==
  LET s == IF d < 0 THEN -1 ELSE 1
      g == Gcd(Abs(n), Abs(d))
  IN  [n |-> s * (n \div g), d |-> s * (d \div g)]

Zero == Rat(0, 1)
One == Rat(1, 1)
FromInt(i) == Rat(i, 1)

\* Python's None (the value of beta between construction and recalculate)
None == [n |-> 0, d |-> 0]

RNeg(a) == [n |-> -a.n, d |-> a.d]

RAdd(a, b) ==
  LET g == Gcd(a.d, b.d)
  IN  Rat(a.n * (b.d \div g) + b.n * (a.d \div g), (a.d \div g) * b.d)

RSub(a, b) == RAdd(a, RNeg(b))

RMul(a, b) ==
  LET g1 == Gcd(Abs(a.n), b.d)
      g2 == Gcd(Abs(b.n), a.d)
  IN  Rat((a.n \div g1) * (b.n \div g2), (a.d \div g2) * (b.d \div g1))

\* a / b for b # 0
RDiv(a, b) == RMul(a, Rat(b.d, b.n))

RLt(a, b) == a.n * b.d < b.n * a.d
RLeq(a, b) == a.n * b.d <= b.n * a.d

RECURSIVE RSumFrom(_, _)
\* sum of the entries i..Len(s) of a sequence of rationals
RSumFrom(s, i) == IF i > Len(s) THEN Zero ELSE RAdd(s[i], RSumFrom(s, i + 1))
RSum(s) == RSumFrom(s, 1)

(* ---------------------------------------------------------------------- *)
(* parts.amortizedmarkov.ProbState: one compartment                        *)
(* ---------------------------------------------------------------------- *)

\* ProbState(period, count, name): no exit routes yet, nothing staged, the
\* history (domain) holds the initial snapshot
ProbState(period, count) ==
  [period |-> period, count |-> count, pending |-> Zero,
   domain |-> <<count>>, exit_states |-> <<>>]

\* add_exit_state(target, weight): one more proportional exit route
add_exit_state(ps, target, weight) ==
  [ps EXCEPT !.exit_states =
     Append(@, [state |-> target, weight |-> weight, rate |-> weight])]

\* normalize_states_over_period(): each day the fraction weight/period of the
\* count leaves along each route; a period of 0 passes everything on
normalize_states_over_period(ps) ==
  LET es == ps.exit_states
  IN  [ps EXCEPT !.exit_states =
         [i \in DOMAIN es |->
            [es[i] EXCEPT !.rate =
               IF ps.period = Zero THEN es[i].weight
               ELSE RDiv(es[i].weight, ps.period)]]]

\* store_pending(delta) on compartment c of the object graph self
store_pending(self, c, delta) ==
  [self EXCEPT ![c].pending = RAdd(@, delta)]

RECURSIVE pass_exits(_, _, _)
pass_exits(self, c, i) ==
  IF i > Len(self[c].exit_states) THEN self
  ELSE LET e == self[c].exit_states[i]
           value == RMul(self[c].count, e.rate)
       IN  pass_exits(store_pending(store_pending(self, e.state, value), c, RNeg(value)),
                      c, i + 1)

\* pass_downstream() on compartment c: the day's exits, computed from count,
\* staged as pending on c and on each target; no count changes
pass_downstream(self, c) == pass_exits(self, c, 1)

\* apply_pending() on one compartment record
commit(ps) ==
  [ps EXCEPT !.count = RAdd(ps.count, ps.pending),
             !.domain = Append(@, RAdd(ps.count, ps.pending)),
             !.pending = Zero]

\* apply_pending() on compartment c of the object graph self
apply_pending(self, c) == [self EXCEPT ![c] = commit(@)]

(* ---------------------------------------------------------------------- *)
(* parts.hospitalized_agegroup.AgeGroup: one age group's clinical cascade  *)
(* ---------------------------------------------------------------------- *)

Stages == <<"isolated", "h_noncrit", "h_icu", "h_icu_vent", "recovered", "deceased">>

\* AgeGroup(rates, name): the group's statistics and six empty stages
AgeGroup(rates) ==
  [stats |-> rates,
   isolated |-> ProbState(Zero, Zero), h_noncrit |-> ProbState(Zero, Zero),
   h_icu |-> ProbState(Zero, Zero), h_icu_vent |-> ProbState(Zero, Zero),
   recovered |-> ProbState(Zero, Zero), deceased |-> ProbState(Zero, Zero)]

\* the daily transitions of the chain: isolation escalates to non-critical
\* care; non-critical escalates to ICU or recovers; ICU escalates to the
\* ventilator, recovers or dies; ICU+ventilator recovers or dies
Transitions(stats) ==
  << [from |-> "isolated",   to |-> "h_noncrit",  rate |-> stats.p_hospital],
     [from |-> "h_noncrit",  to |-> "h_icu",      rate |-> stats.p_icu],
     [from |-> "h_noncrit",  to |-> "recovered",  rate |-> stats.p_recover],
     [from |-> "h_icu",      to |-> "h_icu_vent", rate |-> stats.p_vent],
     [from |-> "h_icu",      to |-> "recovered",  rate |-> stats.p_recover],
     [from |-> "h_icu",      to |-> "deceased",   rate |-> stats.p_die],
     [from |-> "h_icu_vent", to |-> "recovered",  rate |-> stats.p_recover],
     [from |-> "h_icu_vent", to |-> "deceased",   rate |-> stats.p_die] >>

\* apply_infections(inflow): the day's diagnosed of this group enter isolation
\* (the caller has checked that inflow is not negative)
apply_infections(agegroup, inflow) == store_pending(agegroup, "isolated", inflow)

RECURSIVE redistribute(_, _)
redistribute(agegroup, i) ==
  LET ts == Transitions(agegroup.stats) IN
  IF i > Len(ts) THEN agegroup
  ELSE LET t == ts[i]
           value == RMul(agegroup[t.from].count, t.rate)
       IN  redistribute(store_pending(store_pending(agegroup, t.to, value),
                                      t.from, RNeg(value)), i + 1)

\* calculate_redistributions(): every stage's outflow of the day, computed
\* from the counts and staged
calculate_redistributions(agegroup) == redistribute(agegroup, 1)

\* AgeGroup.apply_pending(): commit every stage
agegroup_apply_pending(agegroup) ==
  [agegroup EXCEPT !.isolated = commit(@), !.h_noncrit = commit(@),
                   !.h_icu = commit(@), !.h_icu_vent = commit(@),
                   !.recovered = commit(@), !.deceased = commit(@)]

\* the population in the cascade of one age group
CascadeCount(agegroup) ==
  RSum([i \in DOMAIN Stages |-> agegroup[Stages[i]].count])

(* ---------------------------------------------------------------------- *)
(* scenarios.scenario.EpiScenario: the parameters of one simulation        *)
(* ---------------------------------------------------------------------- *)

\* the period of isolated_holding
HoldingPeriod == 90

\* the age groups, in the order of the scenario's subgrouprates dictionary
GroupKeys == <<"young", "old">>

\* the r0 values of the schedules
R0Values == {FromInt(1), FromInt(3)}

\* per-age-group statistics: the share pop_dist of the diagnosed and the
\* daily transition probabilities of the cascade
Stats(pop_dist, p_hospital) ==
  [pop_dist |-> pop_dist, p_hospital |-> p_hospital, p_icu |-> Rat(1, 4),
   p_vent |-> Rat(1, 4), p_recover |-> Rat(1, 4), p_die |-> Rat(1, 4)]

\* subgrouprates: the weights of the two groups
SubgroupRates(w_young, w_old) ==
  [young |-> Stats(w_young, Rat(1, 4)), old |-> Stats(w_old, Rat(1, 2))]

\* the population distributions: two that sum to 1 and one that does not
EvenRates == SubgroupRates(Rat(1, 2), Rat(1, 2))
SkewedRates == SubgroupRates(Rat(1, 4), Rat(3, 4))
ShortRates == SubgroupRates(Rat(1, 2), Rat(1, 4))

EpiScenario(s, e, i, incubation, prediagnosis, rates, r0, offsets, values) ==
  [totalpop |-> FromInt(s + e + i),
   init_susceptible |-> FromInt(s), init_infected |-> FromInt(e),
   init_infectious |-> FromInt(i),
   incubation_period |-> FromInt(incubation), prediagnosis |-> FromInt(prediagnosis),
   subgrouprates |-> rates,
   parameters |-> [initial_r0 |-> r0],
   r0_date_offsets |-> offsets, r0_values |-> values,
   hospital_door_aggregator |-> <<>>,
   out_susceptible |-> <<>>, out_incubating |-> <<>>, out_infectious |-> <<>>,
   sum_isolated |-> <<>>, sum_noncrit |-> <<>>, sum_icu |-> <<>>,
   sum_icu_vent |-> <<>>, sum_recovered |-> <<>>, sum_deceased |-> <<>>,
   sum_hospitalized |-> <<>>]

\* initial counts and periods (susceptible, incubating, infectious,
\* incubation period, prediagnosis period)
Seeds ==
  { <<1, 1, 2, 1, 1>>, <<3, 1, 0, 2, 1>>, <<3, 1, 0, 1, 1>>, <<1, 0, 1, 1, 2>>,
    <<0, 2, 2, 2, 2>> }

\* the populations: initial counts and periods with a population distribution
Populations ==
  (Seeds \X {EvenRates})
  \cup {<< <<1, 0, 1, 1, 2>>, SkewedRates >>, << <<0, 2, 2, 2, 2>>, ShortRates >>}

RECURSIVE SeqsUpTo(_, _)
\* the sequences over S of length at most n
SeqsUpTo(S, n) ==
  IF n = 0 THEN {<<>>}
  ELSE LET shorter == SeqsUpTo(S, n - 1)
       IN  shorter \cup {Append(q, e) : q \in shorter, e \in S}

\* the schedules: day offsets and r0 values, of any lengths up to MaxSeg, the
\* offsets in any order
OffsetSeqs == SeqsUpTo(0 .. MaxOffset, MaxSeg)
ValueSeqs == SeqsUpTo(R0Values, MaxSeg)

\* the scenarios of a program that only runs its schedule
Scenarios ==
  { EpiScenario(p[1][1], p[1][2], p[1][3], p[1][4], p[1][5], p[2], FromInt(3),
                offsets, values) :
      p \in Populations, offsets \in OffsetSeqs, values \in ValueSeqs }

\* the scenarios of a program that also calls set_r0, recalculate and step_day
\* itself: one well-formed schedule of two segments
ApiScenarios ==
  { EpiScenario(p[1][1], p[1][2], p[1][3], p[1][4], p[1][5], p[2], FromInt(3),
                <<1, 2>>, <<FromInt(3), FromInt(1)>>) :
      p \in Populations }

(* ---------------------------------------------------------------------- *)
(* ScenarioDrivenModel                                                     *)
(* ---------------------------------------------------------------------- *)

\* __init__(scenario)
ScenarioDrivenModel(scenario) ==
  [scenario |-> scenario,
   total_days |-> 0,
   r0 |-> scenario.parameters.initial_r0,
   beta |-> None,
   population |-> scenario.totalpop,
   susceptible |-> ProbState(Zero, scenario.init_susceptible),
   incubating |->
     normalize_states_over_period(
       add_exit_state(ProbState(scenario.incubation_period, scenario.init_infected),
                      "infectious", One)),
   infectious |->
     normalize_states_over_period(
       add_exit_state(ProbState(scenario.prediagnosis, scenario.init_infectious),
                      "isolated_holding", One)),
   isolated_holding |-> ProbState(FromInt(HoldingPeriod), Zero),
   subgroups |-> [key \in DOMAIN scenario.subgrouprates |->
                    AgeGroup(scenario.subgrouprates[key])]]

\* a variant of set_r0 that drops the value
set_r0_ignored(self, value) == self

\* set_r0(value)
set_r0(self, value) == [self EXCEPT !.r0 = value]

\* a variant of recalculate that leaves beta as it is
recalculate_skipped(self) == self

\* recalculate()
recalculate(self) == [self EXCEPT !.beta = RDiv(self.r0, self.infectious.period)]

(* step_day, one operator per group of statements.  A frame x holds the    *)
(* object (self), the locals of the call, the exception it raised (if any) *)
(* and the calls it has made so far, in order.  Once an exception is       *)
(* raised the statements that follow leave the frame as it is.             *)

Frame(self) ==
  [self |-> self, raised |-> "none", trace |-> <<>>,
   new_infections |-> Zero, diagnosed |-> Zero, subpop_out |-> <<>>]

\* what is kept of a frame once the call is over: everything but the object
Locals(x) ==
  [called |-> TRUE, r0 |-> x.self.r0, beta |-> x.self.beta,
   raised |-> x.raised, trace |-> x.trace, new_infections |-> x.new_infections,
   diagnosed |-> x.diagnosed, subpop_out |-> x.subpop_out]

\* before the first step_day call
NoFrame ==
  [called |-> FALSE, r0 |-> Zero, beta |-> None,
   raised |-> "none", trace |-> <<>>, new_infections |-> Zero,
   diagnosed |-> Zero, subpop_out |-> <<>>]

\* an exception is propagating: the statements that follow are not run
Raised(x) == x.raised # "none"

Called(x, call, on) == Append(x.trace, <<call, on>>)

\* a variant of line 64 that takes the incubating for the infectious
new_infections_from_incubating(self) ==
  RDiv(RMul(RMul(self.beta, self.susceptible.count), self.incubating.count),
       self.population)

\* line 64: beta * susceptible.count * infectious.count / population
new_infections(self) ==
  RDiv(RMul(RMul(self.beta, self.susceptible.count), self.infectious.count),
       self.population)

\* a variant of lines 64-66 that forgets line 65, the outflow from susceptible
StageInfectionsNoOutflow(x) ==
  IF x.self.beta = None THEN [x EXCEPT !.raised = "TypeError"]
  ELSE LET ni == new_infections(x.self)
       IN  [x EXCEPT !.new_infections = ni,
                     !.self = store_pending(@, "incubating", ni),
                     !.trace = Append(Append(Called(x, "new_infections", "susceptible"),
                                             <<"store_pending", "susceptible">>),
                                      <<"store_pending", "incubating">>)]

\* a variant of lines 64-66 that commits incubating as soon as the new
\* infections are staged on it
StageInfectionsEarlyCommit(x) ==
  IF x.self.beta = None THEN [x EXCEPT !.raised = "TypeError"]
  ELSE LET ni == new_infections(x.self)
       IN  [x EXCEPT !.new_infections = ni,
                     !.self = apply_pending(store_pending(store_pending(@, "susceptible", RNeg(ni)),
                                                          "incubating", ni),
                                            "incubating"),
                     !.trace = Append(Append(Called(x, "new_infections", "susceptible"),
                                             <<"store_pending", "susceptible">>),
                                      <<"store_pending", "incubating">>)]

\* lines 64-66; None * float raises TypeError
StageInfections(x) ==
  IF x.self.beta = None THEN [x EXCEPT !.raised = "TypeError"]
  ELSE LET ni == new_infections(x.self)
           x1 == [x EXCEPT !.new_infections = ni,
                           !.trace = Called(x, "new_infections", "susceptible")]
           x2 == [x1 EXCEPT !.self = store_pending(@, "susceptible", RNeg(ni)),
                            !.trace = Called(x1, "store_pending", "susceptible")]
       IN  [x2 EXCEPT !.self = store_pending(@, "incubating", ni),
                      !.trace = Called(x2, "store_pending", "incubating")]

\* the order of the pass_downstream calls of lines 67-68
PassOrder == <<"incubating", "infectious">>

RECURSIVE PassDownstreamFrom(_, _, _)
PassDownstreamFrom(x, order, i) ==
  IF i > Len(order) THEN x
  ELSE PassDownstreamFrom([x EXCEPT !.self = pass_downstream(@, order[i]),
                                    !.trace = Called(x, "pass_downstream", order[i])],
                          order, i + 1)

\* a variant of lines 67-68 that commits infectious between the two calls
PassDownstreamEarlyCommit(x, order) ==
  IF Raised(x) THEN x ELSE
  LET x1 == [x EXCEPT !.self = apply_pending(pass_downstream(@, order[1]), "infectious"),
                      !.trace = Append(Called(x, "pass_downstream", order[1]),
                                       <<"apply_pending", "infectious">>)]
  IN  [x1 EXCEPT !.self = pass_downstream(@, order[2]),
                 !.trace = Called(x1, "pass_downstream", order[2])]

\* lines 67-68, for any order of the two calls
PassDownstreamPhase(x, order) ==
  IF Raised(x) THEN x ELSE PassDownstreamFrom(x, order, 1)

\* a variant of lines 70-77 that forgets line 77, the reset of pending
ReadDiagnosedNoReset(x) ==
  IF Raised(x) THEN x ELSE
  LET diagnosed == x.self.isolated_holding.pending
      agg == x.self.scenario.hospital_door_aggregator
      diagnagg == IF Len(agg) = 0 THEN diagnosed ELSE RAdd(agg[Len(agg)], diagnosed)
  IN  [x EXCEPT !.diagnosed = diagnosed,
                !.self.scenario.hospital_door_aggregator = Append(agg, diagnagg),
                !.trace = Called(x, "read_pending", "isolated_holding")]

\* lines 70-77: the diagnosed of the day are read from isolated_holding.pending,
\* added to the running total, and the pending amount is dropped
ReadDiagnosed(x) ==
  IF Raised(x) THEN x ELSE
  LET diagnosed == x.self.isolated_holding.pending
      agg == x.self.scenario.hospital_door_aggregator
      diagnagg == IF Len(agg) = 0 THEN diagnosed ELSE RAdd(agg[Len(agg)], diagnosed)
  IN  [x EXCEPT !.diagnosed = diagnosed,
                !.self.scenario.hospital_door_aggregator = Append(agg, diagnagg),
                !.self.isolated_holding.pending = Zero,
                !.trace = Called(x, "read_pending", "isolated_holding")]

RECURSIVE AgeGroupLoopUnsplit(_, _)
\* a variant of lines 78-83 that forgets the weight of line 79: every age
\* group is fed the whole diagnosed count
AgeGroupLoopUnsplit(x, i) ==
  IF i > Len(GroupKeys) \/ Raised(x) THEN x
  ELSE LET key == GroupKeys[i]
           agegroup == x.self.subgroups[key]
           subpop == x.diagnosed
           x1 == [x EXCEPT !.subpop_out = Append(@, subpop)]
       IN  IF RLt(subpop, Zero) THEN [x1 EXCEPT !.raised = "ValueError"]
           ELSE AgeGroupLoopUnsplit(
                  [x1 EXCEPT !.self.subgroups[key] =
                               calculate_redistributions(apply_infections(agegroup, subpop)),
                             !.trace = Append(Called(x1, "apply_infections", key),
                                              <<"calculate_redistributions", key>>)],
                  i + 1)

RECURSIVE AgeGroupLoop(_, _)
\* lines 78-83; apply_infections raises ValueError on a negative inflow
AgeGroupLoop(x, i) ==
  IF i > Len(GroupKeys) \/ Raised(x) THEN x
  ELSE LET key == GroupKeys[i]
           agegroup == x.self.subgroups[key]
           subpop == RMul(x.diagnosed, agegroup.stats.pop_dist)
           x1 == [x EXCEPT !.subpop_out = Append(@, subpop)]
       IN  IF RLt(subpop, Zero) THEN [x1 EXCEPT !.raised = "ValueError"]
           ELSE AgeGroupLoop(
                  [x1 EXCEPT !.self.subgroups[key] =
                               calculate_redistributions(apply_infections(agegroup, subpop)),
                             !.trace = Append(Called(x1, "apply_infections", key),
                                              <<"calculate_redistributions", key>>)],
                  i + 1)

StageAgeGroups(x) == AgeGroupLoop(x, 1)

\* the compartments committed by lines 84-86, in order
CommitOrder == <<"susceptible", "incubating", "infectious">>

RECURSIVE CommitFrom(_, _)
CommitFrom(x, i) ==
  IF i > Len(CommitOrder) THEN x
  ELSE CommitFrom([x EXCEPT !.self = apply_pending(@, CommitOrder[i]),
                            !.trace = Called(x, "apply_pending", CommitOrder[i])], i + 1)

\* lines 84-86
CommitCompartments(x) == IF Raised(x) THEN x ELSE CommitFrom(x, 1)

RECURSIVE CommitGroupsFrom(_, _)
CommitGroupsFrom(x, i) ==
  IF i > Len(GroupKeys) THEN x
  ELSE CommitGroupsFrom(
         [x EXCEPT !.self.subgroups[GroupKeys[i]] = agegroup_apply_pending(@),
                   !.trace = Called(x, "apply_pending", GroupKeys[i])], i + 1)

\* lines 88-89
CommitAgeGroups(x) == IF Raised(x) THEN x ELSE CommitGroupsFrom(x, 1)

\* line 91
CountDay(x) == IF Raised(x) THEN x ELSE [x EXCEPT !.self.total_days = @ + 1]

\* a variant of step_day that commits the top-level compartments (lines 84-86)
\* before the age groups are staged (lines 78-83)
step_day_commit_first(self, order) ==
  CountDay(CommitAgeGroups(StageAgeGroups(CommitCompartments(ReadDiagnosed(
    PassDownstreamPhase(StageInfections(Frame(self)), order))))))

\* step_day() with the two pass_downstream calls made in the given order
step_day_ordered(self, order) ==
  CountDay(CommitAgeGroups(CommitCompartments(StageAgeGroups(ReadDiagnosed(
    PassDownstreamPhase(StageInfections(Frame(self)), order))))))

\* step_day()
step_day(self) == step_day_ordered(self, PassOrder)

(* gather_sums *)

\* [0] * time_increments
Zeros(time_increments) == [d \in 1 .. time_increments |-> Zero]

\* numpy accepts two series of one length, or a series and a single entry
Broadcastable(a, b) == Len(a) = Len(b) \/ Len(a) = 1 \/ Len(b) = 1

\* np.add(a, b) of two series numpy accepts: element by element, a single
\* entry being added to every entry of the other series
np_add(a, b) ==
  IF Len(a) = Len(b) THEN [d \in DOMAIN a |-> RAdd(a[d], b[d])]
  ELSE IF Len(b) = 1 THEN [d \in DOMAIN a |-> RAdd(a[d], b[1])]
  ELSE [d \in DOMAIN b |-> RAdd(a[1], b[d])]

RECURSIVE sum_stage(_, _, _, _)
\* lines 107-113, for one stage: the stage's history of every age group from
\* the i-th on is added to the series
sum_stage(self, stage, series, i) ==
  IF i > Len(GroupKeys) THEN series
  ELSE sum_stage(self, stage,
                 np_add(series, self.subgroups[GroupKeys[i]][stage].domain), i + 1)

RECURSIVE sum_hospitalized_no_vent(_, _, _)
\* a variant of lines 115-117 that forgets line 117, the ventilated
sum_hospitalized_no_vent(self, series, i) ==
  IF i > Len(GroupKeys) THEN series
  ELSE LET value == self.subgroups[GroupKeys[i]]
       IN  sum_hospitalized_no_vent(self,
             np_add(np_add(series, value.h_noncrit.domain), value.h_icu.domain),
             i + 1)

RECURSIVE sum_hospitalized(_, _, _)
\* lines 107 and 115-117: the three hospital stages of every age group from
\* the i-th on are added to the series
sum_hospitalized(self, series, i) ==
  IF i > Len(GroupKeys) THEN series
  ELSE LET value == self.subgroups[GroupKeys[i]]
       IN  sum_hospitalized(self,
             np_add(np_add(np_add(series, value.h_noncrit.domain), value.h_icu.domain),
                    value.h_icu_vent.domain),
             i + 1)

\* np.add raises ValueError on two series of different lengths (neither of
\* them a single entry): gather_sums returns only when every history it adds
\* fits the series of len(susceptible.domain) entries
Gatherable(self) ==
  \A g \in DOMAIN GroupKeys : \A st \in DOMAIN Stages :
    Broadcastable(self.susceptible.domain, self.subgroups[GroupKeys[g]][Stages[st]].domain)

\* gather_sums(), lines 94-117
gather_sums(self) ==
  LET time_increments == Len(self.susceptible.domain)
  IN  [self EXCEPT
         !.scenario.out_susceptible = self.susceptible.domain,
         !.scenario.out_incubating = self.incubating.domain,
         !.scenario.out_infectious = self.infectious.domain,
         !.scenario.sum_isolated = sum_stage(self, "isolated", Zeros(time_increments), 1),
         !.scenario.sum_noncrit = sum_stage(self, "h_noncrit", Zeros(time_increments), 1),
         !.scenario.sum_icu = sum_stage(self, "h_icu", Zeros(time_increments), 1),
         !.scenario.sum_icu_vent = sum_stage(self, "h_icu_vent", Zeros(time_increments), 1),
         !.scenario.sum_recovered = sum_stage(self, "recovered", Zeros(time_increments), 1),
         !.scenario.sum_deceased = sum_stage(self, "deceased", Zeros(time_increments), 1),
         !.scenario.sum_hospitalized = sum_hospitalized(self, Zeros(time_increments), 1)]

(* ---------------------------------------------------------------------- *)
(* The state machine                                                       *)
(* ---------------------------------------------------------------------- *)

VARIABLES
  model,         \* the ScenarioDrivenModel object (with its scenario)
  pc,            \* where run_r0_set stands: "idle" (not running), "for", "while", "returned"
  date_offsets,  \* run_r0_set's arguments and locals
  r0_values,
  itr,
  day_counter,
  raised,        \* the exception that ended the run, or "none"
  last,          \* the locals of the most recent step_day call
  stepped,       \* the r0 and beta of every day stepped by the current run_r0_set call
  entry_days     \* total_days when the current run_r0_set call was entered

vars ==
  <<model, pc, date_offsets, r0_values, itr, day_counter, raised, last, stepped, entry_days>>

RECURSIVE MaxFrom(_, _)
MaxFrom(s, i) ==
  IF i > Len(s) THEN 0
  ELSE LET rest == MaxFrom(s, i + 1) IN IF s[i] > rest THEN s[i] ELSE rest

\* the number of days a call run_r0_set(offsets, ...) steps
DaysOf(offsets) == MaxFrom(offsets, 1)

NoLocals ==
  /\ date_offsets' = <<>>
  /\ r0_values' = <<>>
  /\ itr' = 0
  /\ day_counter' = 0
  /\ stepped' = <<>>
  /\ entry_days' = 0

\* the state after model = ScenarioDrivenModel(scenario)
Constructed(scenarios) ==
  /\ model \in {ScenarioDrivenModel(scenario) : scenario \in scenarios}
  /\ pc = "idle"
  /\ date_offsets = <<>>
  /\ r0_values = <<>>
  /\ itr = 0
  /\ day_counter = 0
  /\ raised = "none"
  /\ last = NoFrame
  /\ stepped = <<>>
  /\ entry_days = 0

Init == Constructed(Scenarios)

ApiInit == Constructed(ApiScenarios)

Idle == pc = "idle" /\ raised = "none"

\* model.set_r0(value), called from outside a run
SetR0(value) ==
  /\ Idle
  /\ model' = set_r0(model, value)
  /\ UNCHANGED <<pc, date_offsets, r0_values, itr, day_counter, raised, last, stepped,
               entry_days>>

\* model.recalculate(), called from outside a run
Recalculate ==
  /\ Idle
  /\ model' = recalculate(model)
  /\ UNCHANGED <<pc, date_offsets, r0_values, itr, day_counter, raised, last, stepped,
               entry_days>>

\* the effect of one step_day call on the object and on the run
DoStepDay ==
  LET x == step_day(model)
  IN  /\ model' = x.self
      /\ last' = Locals(x)
      /\ raised' = x.raised

\* model.step_day(), called from outside a run
StepDay ==
  /\ Idle
  /\ model.total_days < MaxDays
  /\ DoStepDay
  /\ UNCHANGED <<pc, date_offsets, r0_values, itr, day_counter, stepped, entry_days>>

\* model.gather_sums(), called once no run is in progress
GatherSums ==
  /\ Idle
  /\ IF Gatherable(model)
        THEN model' = gather_sums(model) /\ UNCHANGED raised
        ELSE raised' = "ValueError" /\ UNCHANGED model
  /\ UNCHANGED <<pc, date_offsets, r0_values, itr, day_counter, last, stepped, entry_days>>

\* a variant of lines 54-55 that forgets line 54, the reset of the aggregator
EnterKeepsAggregator(offsets, values) ==
  /\ Idle
  /\ model.total_days + DaysOf(offsets) <= MaxDays
  /\ date_offsets' = offsets
  /\ r0_values' = values
  /\ itr' = 0
  /\ day_counter' = 0
  /\ stepped' = <<>>
  /\ entry_days' = model.total_days
  /\ pc' = "for"
  /\ UNCHANGED <<model, raised, last>>

\* run_r0_set(offsets, values) is entered: lines 54-55
Enter(offsets, values) ==
  /\ Idle
  /\ model.total_days + DaysOf(offsets) <= MaxDays
  /\ model' = [model EXCEPT !.scenario.hospital_door_aggregator = <<>>]
  /\ date_offsets' = offsets
  /\ r0_values' = values
  /\ itr' = 0
  /\ day_counter' = 0
  /\ stepped' = <<>>
  /\ entry_days' = model.total_days
  /\ pc' = "for"
  /\ UNCHANGED <<raised, last>>

\* model.run(): line 45
Run == Enter(model.scenario.r0_date_offsets, model.scenario.r0_values)

\* line 56: the schedule is exhausted and the call returns
ForExit ==
  /\ pc = "for" /\ raised = "none"
  /\ ~ (itr < Len(date_offsets))
  /\ pc' = "returned"
  /\ UNCHANGED <<model, date_offsets, r0_values, itr, day_counter, raised, last, stepped,
               entry_days>>

\* lines 56-58: the next segment is entered; r0_values[itr] raises IndexError
\* when the values are fewer than the offsets
ForSegment ==
  /\ pc = "for" /\ raised = "none"
  /\ itr < Len(date_offsets)
  /\ IF itr < Len(r0_values)
        THEN /\ model' = recalculate(set_r0(model, r0_values[itr + 1]))
             /\ pc' = "while"
             /\ UNCHANGED raised
        ELSE /\ raised' = "IndexError"
             /\ UNCHANGED <<model, pc>>
  /\ UNCHANGED <<date_offsets, r0_values, itr, day_counter, last, stepped, entry_days>>

\* a variant of lines 59-61 that tests day_counter <= date_offsets[itr]: a day
\* is stepped with the day counter already at the segment's offset
WhileStepInclusive ==
  /\ pc = "while" /\ raised = "none"
  /\ day_counter <= date_offsets[itr + 1]
  /\ DoStepDay
  /\ IF raised' = "none"
        THEN /\ day_counter' = day_counter + 1
             /\ stepped' = Append(stepped, [r0 |-> model.r0, beta |-> model.beta])
        ELSE UNCHANGED <<day_counter, stepped>>
  /\ UNCHANGED <<pc, date_offsets, r0_values, itr, entry_days>>

\* lines 59-61: one more day of the segment
WhileStep ==
  /\ pc = "while" /\ raised = "none"
  /\ day_counter < date_offsets[itr + 1]
  /\ DoStepDay
  /\ IF raised' = "none"
        THEN /\ day_counter' = day_counter + 1
             /\ stepped' = Append(stepped, [r0 |-> model.r0, beta |-> model.beta])
        ELSE UNCHANGED <<day_counter, stepped>>
  /\ UNCHANGED <<pc, date_offsets, r0_values, itr, entry_days>>

\* a variant of line 59 that leaves the segment one day early
WhileExitEarly ==
  /\ pc = "while" /\ raised = "none"
  /\ ~ (day_counter + 1 < date_offsets[itr + 1])
  /\ itr' = itr + 1
  /\ pc' = "for"
  /\ UNCHANGED <<model, date_offsets, r0_values, day_counter, raised, last, stepped,
               entry_days>>

\* line 59: the day counter has reached the segment's offset
WhileExit ==
  /\ pc = "while" /\ raised = "none"
  /\ ~ (day_counter < date_offsets[itr + 1])
  /\ itr' = itr + 1
  /\ pc' = "for"
  /\ UNCHANGED <<model, date_offsets, r0_values, day_counter, raised, last, stepped,
               entry_days>>

\* the call has returned to its caller
Return ==
  /\ pc = "returned"
  /\ pc' = "idle"
  /\ NoLocals
  /\ UNCHANGED <<model, raised, last>>

Next ==
  \/ Run
  \/ ForExit
  \/ ForSegment
  \/ WhileStep
  \/ WhileExit
  \/ Return

Spec == Init /\ [][Next]_vars

\* the same object driven by a caller that also uses the rest of its interface
ApiNext ==
  \/ Next
  \/ \E value \in R0Values : SetR0(value)
  \/ Recalculate
  \/ StepDay
  \/ GatherSums

ApiSpec == ApiInit /\ [][ApiNext]_vars

(* ---------------------------------------------------------------------- *)
(* Properties                                                              *)
(* ---------------------------------------------------------------------- *)

RECURSIVE CascadeTotalFrom(_, _)
CascadeTotalFrom(self, i) ==
  IF i > Len(GroupKeys) THEN Zero
  ELSE RAdd(CascadeCount(self.subgroups[GroupKeys[i]]), CascadeTotalFrom(self, i + 1))

\* everybody counted by a compartment or a cascade stage
TotalCount(self) ==
  RAdd(RAdd(RAdd(self.susceptible.count, self.incubating.count), self.infectious.count),
       CascadeTotalFrom(self, 1))

\* the population the scenario starts with
InitialTotal(scenario) ==
  RAdd(RAdd(scenario.init_susceptible, scenario.init_infected), scenario.init_infectious)

WeightsSumToOne(self) ==
  RSum([i \in DOMAIN GroupKeys |-> self.subgroups[GroupKeys[i]].stats.pop_dist]) = One

\* C1 (conservation): whenever the age groups' pop_dist weights sum to 1, the
\* counts of susceptible, incubating and infectious plus the counts of every
\* cascade stage of every age group add up to the initial total population,
\* after any number of days.
C1_Conservation ==
  WeightsSumToOne(model) => TotalCount(model) = InitialTotal(model.scenario)

\* C1 witness: two days on, people have been infected, diagnosed and moved
\* into the cascades, under weights that sum to 1.
C1_Witness ==
  /\ WeightsSumToOne(model)
  /\ model.total_days >= 2
  /\ RLt(model.susceptible.count, model.scenario.init_susceptible)
  /\ RLt(Zero, CascadeTotalFrom(model, 1))
  /\ RLt(Zero, model.subgroups["old"].h_noncrit.count)

StagingCalls ==
  {"new_infections", "store_pending", "pass_downstream", "read_pending",
   "apply_infections", "calculate_redistributions"}

\* the staging calls a completed day makes
RequiredStaging ==
  { <<"new_infections", "susceptible">>, <<"store_pending", "susceptible">>,
    <<"store_pending", "incubating">>, <<"pass_downstream", "incubating">>,
    <<"pass_downstream", "infectious">> }
  \cup {<<"apply_infections", GroupKeys[i]>> : i \in DOMAIN GroupKeys}
  \cup {<<"calculate_redistributions", GroupKeys[i]>> : i \in DOMAIN GroupKeys}

Range(q) == {q[i] : i \in DOMAIN q}

\* C2 (two phases): in every step_day no apply_pending precedes a staging
\* call, and a day that completes has made every staging call of the day
\* before its first apply_pending.
C2_CommitAfterStaging ==
  /\ \A i, j \in DOMAIN last.trace :
       (last.trace[i][1] = "apply_pending" /\ last.trace[j][1] \in StagingCalls) => j < i
  /\ (last.called /\ last.raised = "none") =>
       /\ RequiredStaging \subseteq Range(last.trace)
       /\ \E i \in DOMAIN last.trace : last.trace[i][1] = "apply_pending"

\* C2 witness: a completed day that staged a nonzero amount for everybody and
\* then committed the compartments and both cascades.
C2_Witness ==
  /\ last.called /\ last.raised = "none"
  /\ RLt(Zero, last.new_infections) /\ RLt(Zero, last.diagnosed)
  /\ {<<"apply_pending", "susceptible">>, <<"apply_pending", "incubating">>,
      <<"apply_pending", "infectious">>, <<"apply_pending", "young">>,
      <<"apply_pending", "old">>} \subseteq Range(last.trace)

Reversed(q) == [i \in DOMAIN q |-> q[Len(q) + 1 - i]]

\* a day can be stepped from this state
CanStep == raised = "none" /\ model.beta # None /\ model.total_days < MaxDays

\* C3 (order independence): stepping a day with the pass_downstream calls of
\* incubating and infectious in the reverse order leaves the same object (the
\* same counts in every compartment) and the same diagnosed count as stepping
\* it with the calls in the order of the code.
C3_OrderIndependent ==
  CanStep =>
    LET inOrder == step_day_ordered(model, PassOrder)
        reversed == step_day_ordered(model, Reversed(PassOrder))
    IN  /\ inOrder.self = reversed.self
        /\ inOrder.diagnosed = reversed.diagnosed
        /\ inOrder.raised = reversed.raised

\* C3 witness: a day is about to be stepped with people in both chained
\* compartments, so that both calls stage a nonzero amount into infectious.
C3_Witness ==
  /\ CanStep /\ last.called
  /\ RLt(Zero, model.incubating.count) /\ RLt(Zero, model.infectious.count)
  /\ LET reversed == step_day_ordered(model, Reversed(PassOrder))
     IN  /\ reversed.raised = "none"
         /\ RLt(Zero, reversed.diagnosed)
         /\ reversed.self.infectious.count # model.infectious.count

StrictlyIncreasing(q) == \A i \in 1 .. Len(q) - 1 : q[i] < q[i + 1]

\* a schedule run_r0_set is specified to accept
WellFormed(offsets, values) == StrictlyIncreasing(offsets) /\ Len(offsets) = Len(values)

\* a run_r0_set call is in progress or has just returned
Running == pc \in {"for", "while", "returned"}

\* the first day of segment i (1-based): the offset of the segment before it
SegStart(offsets, i) == IF i = 1 THEN 0 ELSE offsets[i - 1]

LastOffset(offsets) == IF offsets = <<>> THEN 0 ELSE offsets[Len(offsets)]

BetaOf(r0value) == RDiv(r0value, model.infectious.period)

\* C4 (schedule in order): under strictly increasing offsets every day the
\* call has stepped, with index d, lies in exactly the segment i with
\* offsets[i-1] <= d < offsets[i] and was stepped under r0 = values[i] and
\* beta = values[i] / infectious.period; and when the call returns it has
\* stepped offsets[last] days and total_days has grown by as much.
C4_ScheduleInOrder ==
  (Running /\ StrictlyIncreasing(date_offsets)) =>
    /\ \A k \in DOMAIN stepped :
         \E i \in DOMAIN date_offsets :
           /\ i <= Len(r0_values)
           /\ SegStart(date_offsets, i) <= k - 1 /\ k - 1 < date_offsets[i]
           /\ stepped[k].r0 = r0_values[i]
           /\ stepped[k].beta = BetaOf(r0_values[i])
    /\ pc = "returned" =>
         /\ Len(stepped) = LastOffset(date_offsets)
         /\ day_counter = LastOffset(date_offsets)
         /\ model.total_days = entry_days + LastOffset(date_offsets)

\* C4 witness: a call with two segments of one day each and two different
\* values has returned, on an object that had been run before.
C4_Witness ==
  /\ pc = "returned" /\ raised = "none"
  /\ date_offsets = <<1, 2>> /\ Len(r0_values) = 2 /\ r0_values[1] # r0_values[2]
  /\ Len(stepped) = 2 /\ entry_days > 0

\* C5 (malformed schedules are rejected): a call whose offsets are not
\* strictly increasing, or whose offsets and values differ in length, steps no
\* day, raises nothing but ConfigurationError and never returns normally.
C5_MalformedRejected ==
  (Running /\ ~ WellFormed(date_offsets, r0_values)) =>
    /\ stepped = <<>>
    /\ pc # "returned"
    /\ raised \in {"none", "ConfigurationError"}

\* C6 as claimed (beta is current in every step_day): whoever calls step_day,
\* a day that is stepped (a call that gets past line 64) is stepped with
\* beta = r0 / infectious.period.
C6_BetaCurrentInEveryStep ==
  (last.called /\ last.raised # "TypeError") => last.beta = BetaOf(last.r0)

\* C6 as amended (beta is current in every step_day of run_r0_set): while
\* run_r0_set is in its day loop beta = r0 / infectious.period, and every day
\* it has stepped was stepped under such a beta.
C6_BetaCurrentInRun ==
  /\ pc = "while" => model.beta = BetaOf(model.r0)
  /\ \A k \in DOMAIN stepped : stepped[k].beta = BetaOf(stepped[k].r0)

\* C6 witness: a run has stepped a day under one r0 and a day under another,
\* after its caller had left beta stale by a set_r0 of its own.
C6_Witness ==
  /\ pc = "while" /\ Len(stepped) = 2 /\ stepped[1].r0 # stepped[2].r0
  /\ last.called /\ last.beta = BetaOf(last.r0)

\* C7 as claimed (a segment's value holds from its offset onward): under a
\* well-formed schedule every day with index d >= offsets[i] (and below the
\* next offset) is stepped under values[i].
C7_ValueFromOffsetOnward ==
  (Running /\ WellFormed(date_offsets, r0_values)) =>
    \A k \in DOMAIN stepped : \A i \in DOMAIN date_offsets :
      (/\ date_offsets[i] <= k - 1
       /\ (i = Len(date_offsets) \/ k - 1 < date_offsets[i + 1]))
      => stepped[k].r0 = r0_values[i]

\* C7 as amended (a segment's value holds up to its offset): under strictly
\* increasing offsets, while the call is in segment i its r0 is values[i],
\* beta is values[i] / infectious.period, and the day counter lies between the
\* previous segment's offset (0 for the first) and offsets[i]: the segment is
\* entered when the previous offset is reached and ends at its own offset.
C7_ValueUpToOffset ==
  (pc = "while" /\ StrictlyIncreasing(date_offsets)) =>
    /\ model.r0 = r0_values[itr + 1]
    /\ model.beta = BetaOf(r0_values[itr + 1])
    /\ SegStart(date_offsets, itr + 1) <= day_counter
    /\ day_counter <= date_offsets[itr + 1]

\* C7 witness: the call has just entered its second segment, on reaching the
\* first segment's offset, and has a day to step there under another value.
C7_Witness ==
  /\ pc = "while" /\ raised = "none" /\ StrictlyIncreasing(date_offsets)
  /\ itr = 1 /\ day_counter = date_offsets[1] /\ day_counter >= 1
  /\ day_counter < date_offsets[2]
  /\ r0_values[1] # r0_values[2] /\ stepped[day_counter].r0 = r0_values[1]

\* C8 (monotonic aggregator): the newest entry of hospital_door_aggregator is
\* the entry before it plus the day's diagnosed count (the diagnosed count
\* itself on the first day), and the series never decreases.
C8_AggregatorMonotonic ==
  LET agg == model.scenario.hospital_door_aggregator IN
  /\ Len(agg) = 1 => agg[1] = last.diagnosed
  /\ Len(agg) > 1 => agg[Len(agg)] = RAdd(agg[Len(agg) - 1], last.diagnosed)
  /\ \A i \in 2 .. Len(agg) : RLeq(agg[i - 1], agg[i])

IndexIn(q, e) == CHOOSE i \in DOMAIN q : q[i] = e

\* C9 (isolated_holding is a pass-through): the diagnosed count of a day is
\* read after both pass_downstream calls and is the amount infectious passed
\* on; isolated_holding is never committed, its pending is 0 after every
\* step_day and its count is still its initial value, 0.
C9_HoldingPassThrough ==
  /\ model.isolated_holding.pending = Zero
  /\ model.isolated_holding.count = Zero
  /\ <<"apply_pending", "isolated_holding">> \notin Range(last.trace)
  /\ (last.called /\ last.raised = "none") =>
       LET history == model.infectious.domain IN
       /\ IndexIn(last.trace, <<"pass_downstream", "incubating">>)
            < IndexIn(last.trace, <<"read_pending", "isolated_holding">>)
       /\ IndexIn(last.trace, <<"pass_downstream", "infectious">>)
            < IndexIn(last.trace, <<"read_pending", "isolated_holding">>)
       /\ last.diagnosed = RMul(history[Len(history) - 1],
                                model.infectious.exit_states[1].rate)

\* C9 witness: two days on, the last day diagnosed somebody.
C9_Witness ==
  /\ last.called /\ last.raised = "none" /\ model.total_days >= 2
  /\ RLt(Zero, last.diagnosed)
  /\ RLt(last.diagnosed, model.infectious.domain[Len(model.infectious.domain) - 1])

Compartments == {"susceptible", "incubating", "infectious", "isolated_holding"}

\* C10 (every history grows by one entry a day): the history of every
\* top-level compartment and of every cascade stage holds the initial
\* snapshot and one entry per day stepped.
C10_EveryHistoryGrows ==
  /\ \A c \in Compartments : Len(model[c].domain) = model.total_days + 1
  /\ \A g \in DOMAIN GroupKeys : \A st \in DOMAIN Stages :
       Len(model.subgroups[GroupKeys[g]][Stages[st]].domain) = model.total_days + 1

\* C11 (non-negative counts): after each commit of step_day the counts of
\* susceptible, incubating and infectious are not negative.
C11_CountsNonNegative ==
  \A c \in {"susceptible", "incubating", "infectious"} : RLeq(Zero, model[c].count)

\* the series gather_sums leaves on the scenario
OutCompartments == {"out_susceptible", "out_incubating", "out_infectious"}
SumOf ==
  [isolated |-> "sum_isolated", h_noncrit |-> "sum_noncrit", h_icu |-> "sum_icu",
   h_icu_vent |-> "sum_icu_vent", recovered |-> "sum_recovered",
   deceased |-> "sum_deceased"]
OutSeries == OutCompartments \cup {SumOf[Stages[st]] : st \in DOMAIN Stages} \cup {"sum_hospitalized"}

\* the people of all age groups in one cascade stage at the end of day d - 1
AcrossGroups(self, stage, d) ==
  RSum([g \in DOMAIN GroupKeys |-> self.subgroups[GroupKeys[g]][stage].domain[d]])

\* C12 (gather_sums): called when no run is in progress, gather_sums returns
\* and leaves series of total_days + 1 entries each; the series of a cascade
\* stage is, entry by entry, the sum over the age groups of the stage's
\* history, and sum_hospitalized is, entry by entry, sum_noncrit + sum_icu +
\* sum_icu_vent.
C12_GatherSums ==
  Idle =>
    /\ Gatherable(model)
    /\ LET out == gather_sums(model).scenario
           days == 1 .. model.total_days + 1
       IN  /\ \A series \in OutSeries : DOMAIN out[series] = days
           /\ \A st \in DOMAIN Stages : \A d \in days :
                out[SumOf[Stages[st]]][d] = AcrossGroups(model, Stages[st], d)
           /\ \A d \in days :
                out.sum_hospitalized[d] =
                  RAdd(RAdd(out.sum_noncrit[d], out.sum_icu[d]), out.sum_icu_vent[d])

\* C12 witness: gather_sums has been called after four days, with people in
\* all three hospital stages of both age groups.
C12_Witness ==
  LET out == model.scenario
      today == model.total_days + 1
  IN  /\ Idle /\ model.total_days >= 4
      /\ \A series \in OutSeries : Len(out[series]) = today
      /\ \A g \in DOMAIN GroupKeys :
           /\ RLt(Zero, model.subgroups[GroupKeys[g]].h_noncrit.domain[today])
           /\ RLt(Zero, model.subgroups[GroupKeys[g]].h_icu.domain[today])
           /\ RLt(Zero, model.subgroups[GroupKeys[g]].h_icu_vent.domain[today])
      /\ RLt(out.sum_icu_vent[today], out.sum_hospitalized[today])
      /\ out = gather_sums(model).scenario

\* the positions of a call in the trace of the last step_day
CallsOf(call, on) == {i \in DOMAIN last.trace : last.trace[i] = <<call, on>>}

\* C13 (age split): in every step_day an age group is fed at most once, by
\* one apply_infections immediately followed by one calculate_redistributions,
\* both before any apply_pending, and the inflow computed for it is
\* diagnosed * pop_dist of the group; a day that completes has fed every
\* group exactly once, each group's isolation holds what it kept of the day
\* before plus its inflow, and the inflows sum to the day's diagnosed count
\* when the pop_dist weights sum to 1.
C13_AgeSplit ==
  last.called =>
    /\ \A g \in DOMAIN GroupKeys :
         LET key == GroupKeys[g]
             agegroup == model.subgroups[key]
             fed == CallsOf("apply_infections", key)
             redistributed == CallsOf("calculate_redistributions", key)
         IN  /\ Cardinality(fed) <= 1
             /\ Cardinality(redistributed) = Cardinality(fed)
             /\ \A i \in fed :
                  /\ i + 1 \in redistributed
                  /\ \A j \in DOMAIN last.trace :
                       last.trace[j][1] = "apply_pending" => i + 1 < j
             /\ g <= Len(last.subpop_out) =>
                  last.subpop_out[g] = RMul(last.diagnosed, agegroup.stats.pop_dist)
             /\ last.raised = "none" =>
                  /\ Cardinality(fed) = 1
                  /\ LET history == agegroup.isolated.domain
                         before == history[Len(history) - 1]
                     IN  agegroup.isolated.count =
                           RAdd(RSub(before, RMul(before, agegroup.stats.p_hospital)),
                                last.subpop_out[g])
    /\ last.raised = "none" =>
         /\ Len(last.subpop_out) = Len(GroupKeys)
         /\ WeightsSumToOne(model) => RSum(last.subpop_out) = last.diagnosed

\* C13 witness: a completed day has split a nonzero diagnosed count between
\* the two age groups in unequal parts, under weights that sum to 1, with
\* people already in isolation.
C13_Witness ==
  /\ last.called /\ last.raised = "none" /\ WeightsSumToOne(model)
  /\ RLt(Zero, last.diagnosed)
  /\ Len(last.subpop_out) = 2 /\ RLt(last.subpop_out[1], last.subpop_out[2])
  /\ model.total_days >= 2
  /\ RLt(Zero, model.subgroups["young"].isolated.domain[model.total_days])

\* the length of every history of the object
HistoryLengths(self) ==
  << [c \in Compartments |-> Len(self[c].domain)],
     [g \in DOMAIN GroupKeys |->
        [st \in DOMAIN Stages |-> Len(self.subgroups[GroupKeys[g]][Stages[st]].domain)]] >>

\* C14 (zero-step): a step of the program taken anywhere but in a segment
\* with days left to step (day counter below the segment's offset) leaves
\* total_days and the length of every history as they are; so does a segment
\* entered with the day counter already at its offset, and an empty schedule.
C14_ZeroStepFrame ==
  [][ \/ pc = "while" /\ day_counter < date_offsets[itr + 1]
      \/ /\ model'.total_days = model.total_days
         /\ HistoryLengths(model') = HistoryLengths(model) ]_vars

\* C14 witness: on an object that has been run before, a segment of offset 0
\* has been entered and left without a day being stepped.
C14_Witness ==
  /\ pc = "for" /\ raised = "none" /\ itr = 1 /\ date_offsets[1] = 0
  /\ stepped = <<>> /\ entry_days > 0
  /\ model.total_days = entry_days
  /\ Len(model.susceptible.domain) = entry_days + 1

\* the seeded scenario: nobody infectious yet, somebody incubating, one r0
\* value for the whole schedule
Seeded ==
  LET scenario == model.scenario IN
  /\ scenario.init_infectious = Zero
  /\ RLt(Zero, scenario.init_infected)
  /\ \A i, j \in DOMAIN scenario.r0_values : scenario.r0_values[i] = scenario.r0_values[j]

\* the last step_day call completed day model.total_days
Completed == last.called /\ last.raised = "none"

\* C15 as claimed (no infection before the dwell period has elapsed): in the
\* seeded scenario new_infections is 0 on every day d up to incubating's
\* period, the days at whose start fewer than period days have elapsed.
C15_NoInfectionWithinDwell ==
  (Seeded /\ Completed /\ RLeq(FromInt(model.total_days), model.incubating.period))
    => last.new_infections = Zero

\* C15 as amended (the first infection comes on day 2): in the seeded
\* scenario new_infections is 0 on day 1 and, with somebody susceptible,
\* nonzero on day 2, whatever incubating's period: at the end of day 1 the
\* fraction 1/period of the incubating has become infectious.
C15_FirstInfectionOnDayTwo ==
  (Seeded /\ Completed) =>
    /\ model.total_days = 1 =>
         /\ last.new_infections = Zero
         /\ model.infectious.count = RDiv(model.scenario.init_infected, model.incubating.period)
    /\ (model.total_days = 2 /\ RLt(Zero, model.scenario.init_susceptible)) =>
         RLt(Zero, last.new_infections)

\* C15 witness: day 2 of a seeded scenario whose incubating period is 2 days
\* has been stepped, with new infections.
C15_Witness ==
  /\ Seeded /\ Completed /\ model.total_days = 2
  /\ model.incubating.period = FromInt(2)
  /\ RLt(Zero, last.new_infections)
  /\ model.susceptible.domain[2] = model.scenario.init_susceptible

\* nothing is staged on any compartment or cascade stage
NothingPending(self) ==
  /\ \A c \in Compartments : self[c].pending = Zero
  /\ \A g \in DOMAIN GroupKeys : \A st \in DOMAIN Stages :
       self.subgroups[GroupKeys[g]][Stages[st]].pending = Zero

\* C16 (no partial failure): in a state in which an exception is reported,
\* from step_day or from run_r0_set, no compartment and no cascade stage has
\* a pending amount other than 0.
C16_NoPartialFailure ==
  raised # "none" => NothingPending(model)

\* C17 (the counters): total_days counts the days completed since
\* construction (one per entry the commits have added to the history of
\* susceptible) and is never reset; a run_r0_set call starts with its day
\* counter at 0 and an empty hospital_door_aggregator; during the call and
\* when it returns the day counter is the number of days the call has
\* stepped, total_days has grown by as much since the call was entered, and
\* the aggregator has one entry per day the call has stepped (and one more,
\* that of the failed day, if step_day raised after line 75).
C17_Counters ==
  LET agg == model.scenario.hospital_door_aggregator IN
  /\ model.total_days = Len(model.susceptible.domain) - 1
  /\ (pc = "for" /\ itr = 0) => (day_counter = 0 /\ agg = <<>>)
  /\ Running =>
       /\ day_counter = Len(stepped)
       /\ model.total_days = entry_days + Len(stepped)
       /\ Len(agg) = Len(stepped) + (IF raised = "ValueError" THEN 1 ELSE 0)

\* C17 witness: the second call of run_r0_set has returned: the aggregator
\* holds the days of this call, total_days the days of both.
C17_Witness ==
  /\ pc = "returned" /\ raised = "none"
  /\ entry_days >= 1 /\ Len(stepped) >= 1
  /\ Len(model.scenario.hospital_door_aggregator) = Len(stepped)
  /\ model.total_days = entry_days + Len(stepped)
  /\ Len(model.scenario.hospital_door_aggregator) < model.total_days

\* the count of compartment c when the last step_day call was entered: the
\* history entry before the one the call has committed, or the count itself
\* if the call raised before committing
CountBefore(c) ==
  IF last.raised = "none" THEN model[c].domain[Len(model[c].domain) - 1]
  ELSE model[c].count

\* C18 (the day is computed from the counts of the day before): in every
\* step_day that gets past line 64, new_infections is beta * S * I /
\* population and diagnosed is I * (rate of infectious's exit), for the
\* counts S of susceptible and I of infectious at entry; a day that completes
\* leaves in infectious what it kept of I plus the exits of the incubating
\* at entry, and in incubating what it kept plus the new infections: the new
\* infections of a day are neither in infectious nor diagnosed on that day.
C18_PreUpdateCounts ==
  (last.called /\ last.raised # "TypeError") =>
    LET S == CountBefore("susceptible")
        E == CountBefore("incubating")
        I == CountBefore("infectious")
        exposed == RMul(E, model.incubating.exit_states[1].rate)
        removed == RMul(I, model.infectious.exit_states[1].rate)
    IN  /\ last.new_infections = RDiv(RMul(RMul(last.beta, S), I), model.population)
        /\ last.diagnosed = removed
        /\ last.raised = "none" =>
             /\ model.susceptible.count = RSub(S, last.new_infections)
             /\ model.incubating.count = RAdd(RSub(E, exposed), last.new_infections)
             /\ model.infectious.count = RAdd(RSub(I, removed), exposed)

\* C18 witness: a completed day on which people were infected while others
\* were incubating and others infectious, with an incubation period of two
\* days, so that every term of the day's balance is nonzero.
C18_Witness ==
  /\ Completed /\ model.total_days >= 2
  /\ model.incubating.period = FromInt(2)
  /\ RLt(Zero, last.new_infections) /\ RLt(Zero, last.diagnosed)
  /\ RLt(Zero, CountBefore("incubating")) /\ RLt(Zero, CountBefore("infectious"))
  /\ RLt(last.new_infections, model.incubating.count)

====
